---- MODULE Spec2Model ----
(***************************************************************************)
(* Model of cStress_model_param_fold_parallel_spark.py: the Spark-parallel *)
(* grid / randomized hyper-parameter search (GridSearchCVSparkParallel,    *)
(* RandomGridSearchCVSparkParallel), the out-of-fold probability pass      *)
(* (cross_val_probs), the dual-threshold scorers and the main routine.     *)
(*                                                                         *)
(* Opaque capabilities (the SVC's fit / predict_proba, its default score)  *)
(* are nondeterministic choices over small value sets; everything the      *)
(* repository's own code computes is computed here as the code does.       *)
(***************************************************************************)
EXTENDS Integers, Sequences, FiniteSets, TLC

(***************************************************************************)
(* Bounds of the model.                                                    *)
(***************************************************************************)
NSamples == 3       \* rows of the training matrix
MaxSettings == 2    \* size of the declared parameter space
MaxItems == 4       \* most (parameter setting, fold) work items of one search
MaxScore == 1       \* a work item's score is one of 0..MaxScore
MaxProb == 2        \* a predicted probability is one of 1..MaxProb
MaxN == 4           \* scorer inputs given in full have at most MaxN rows
Bulk == 20          \* rows of a block of equal labels in the long scorer inputs
MaxMid == 4         \* rows between the blocks of a long scorer input

VARIABLES
    pc,                 \* position of the driver program
    subjects,           \* subject id of every sample (main: subjects)
    whichsearch,        \* "grid" | "random"            (args.whichsearch)
    space,              \* number of settings of the declared parameter space
    n_iter,             \* RandomizedSearch: number of sampled settings
    iid, refit,         \* constructor flags of the search object
    scoring,            \* constructor argument scoring=
    scorer_,            \* self.scorer_ of the search object
    cv,                 \* the fold plan: sequence of [train, test]
    parameter_iterable, \* fit's sequence of candidate settings
    param_grid,         \* fit's list of (parameters, train, test)
    pending,            \* indices of work items not yet returned by a worker
    collected,          \* what collect() returned: (index, res) pairs, in arrival order
    out,                \* fit's reordered result list
    X_bc, y_bc,         \* state of the two broadcast variables
    grid_scores_, best_params_, best_score_, best_estimator_,
    estimators,         \* the estimator objects: name -> [params, fitted, on]
    scorer_log,         \* which scoring function was applied where
    args_scorer,        \* args.scorer
    scorer,             \* main's scorer function
    trainlabels,        \* the label of every sample (y)
    cv_estimator,       \* cross_val_probs: the estimator object it was given
    cv_i,               \* cross_val_probs: folds done
    predicted_values,   \* cross_val_probs: the output vector
    pred_writes,        \* per sample, the training sets of the models that wrote its value
    CV_probs,           \* main: what cross_val_probs returned
    db,                 \* the scorer's rows sorted by probability
    score, bias,        \* main: what the final scorer call returned
    saved_model,        \* the model files save_model wrote
    report              \* the held-out report

searchvars == <<subjects, whichsearch, space, n_iter, iid, refit, scoring, scorer_, cv,
                parameter_iterable, param_grid, pending, collected, out, X_bc, y_bc, grid_scores_,
                best_params_, best_score_, best_estimator_, estimators, scorer_log>>

cvvars == <<cv_estimator, cv_i, predicted_values, pred_writes>>
mainvars == <<args_scorer, scorer, trainlabels, CV_probs, db, score, bias, saved_model, report>>

vars == <<pc, searchvars, cvvars, mainvars>>

Samples == 1..NSamples
None == "None"

Min(a, b) == IF a < b THEN a ELSE b
IsInjective(s) == \A i, j \in DOMAIN s : s[i] = s[j] => i = j

(***************************************************************************)
(* The fold plan: LabelKFold(subjects, n_folds = number of distinct        *)
(* subjects) gives every subject a fold of its own; fold f tests the       *)
(* samples of the f-th subject, the subjects taken by falling sample count *)
(* (and falling id among equal counts).                                    *)
(***************************************************************************)
SubjectIds(subj) == {subj[s] : s \in DOMAIN subj}
SamplesOf(subj, g) == {s \in DOMAIN subj : subj[s] = g}
FoldRank(subj, g) ==
    1 + Cardinality({h \in SubjectIds(subj) :
            \/ Cardinality(SamplesOf(subj, h)) > Cardinality(SamplesOf(subj, g))
            \/ /\ Cardinality(SamplesOf(subj, h)) = Cardinality(SamplesOf(subj, g))
               /\ h > g})
LabelKFold(subj) ==
    [f \in 1..Cardinality(SubjectIds(subj)) |->
        LET g == CHOOSE h \in SubjectIds(subj) : FoldRank(subj, h) = f
        IN  [train |-> DOMAIN subj \ SamplesOf(subj, g), test |-> SamplesOf(subj, g)]]

(***************************************************************************)
(* The parameter space generators.  A setting is named by its place in the *)
(* exhaustive enumeration of the declared space.                           *)
(***************************************************************************)
ParameterGrid(S) == [m \in 1..S |-> m]
ParameterSampler(S, n) == {s \in [1..n -> 1..S] : IsInjective(s)}

\* param_grid = [(parameters, train, test) for parameters in parameter_iterable
\*                                          for (train, test) in cv]
MakeParamGrid(piter, plan) ==
    [x \in 1..(Len(piter) * Len(plan)) |->
        [parameters |-> piter[((x - 1) \div Len(plan)) + 1],
         train |-> plan[((x - 1) % Len(plan)) + 1].train,
         test |-> plan[((x - 1) % Len(plan)) + 1].test]]

\* check_scoring(estimator, scoring): the estimator's own score method when
\* no scoring is given, the given callable otherwise.
check_scoring(sc) == IF sc = None THEN "estimator.score" ELSE sc

(***************************************************************************)
(* Reassembly of the collected (index, res) pairs.                         *)
(***************************************************************************)
\* dict(pairs): for a key given twice the later pair wins.
Dict(pairs) ==
    [idx \in {pairs[x][1] : x \in DOMAIN pairs} |->
        LET last == CHOOSE x \in DOMAIN pairs :
                        /\ pairs[x][1] = idx
                        /\ \A z \in DOMAIN pairs : pairs[z][1] = idx => z <= x
        IN  pairs[last][2]]

ReorderArrival(pairs, n) == [x \in 1..n |-> pairs[x][2]]
\* out = [indexed_output[idx] for idx in range(len(param_grid))]
Reorder(pairs, n) == [x \in 1..n |-> Dict(pairs)[x - 1]]

(***************************************************************************)
(* Aggregation of the per-item results into grid scores.                   *)
(***************************************************************************)
\* range(0, n_fits, n_folds): the block starts, as 0-based offsets
BlockStarts(n_fits, n_folds) == {g \in 0..(n_fits - 1) : g % n_folds = 0}
BlockShort(o, g, n_folds) == SubSeq(o, g + 1, Min(g + n_folds - 1, Len(o)))
\* out[grid_start:grid_start + n_folds]
Block(o, g, n_folds) == SubSeq(o, g + 1, Min(g + n_folds, Len(o)))

RECURSIVE SumScoreUnweighted(_, _)
SumScoreUnweighted(blk, weighted) ==
    IF blk = <<>> THEN 0
    ELSE Head(blk).score + SumScoreUnweighted(Tail(blk), weighted)

RECURSIVE SumScore(_, _)
SumScore(blk, weighted) ==
    IF blk = <<>> THEN 0
    ELSE (IF weighted THEN Head(blk).score * Head(blk).n_test_samples
                      ELSE Head(blk).score)
         + SumScore(Tail(blk), weighted)

RECURSIVE SumTest(_)
SumTest(blk) == IF blk = <<>> THEN 0 ELSE Head(blk).n_test_samples + SumTest(Tail(blk))

\* one _CVScoreTuple; the mean is kept as the fraction num/den
CVScoreTuple(blk, n_folds, isiid) ==
    [parameters |-> blk[Len(blk)].parameters,
     mean_validation_score |->
        [num |-> SumScore(blk, isiid),
         den |-> IF isiid THEN SumTest(blk) ELSE n_folds],
     cv_validation_scores |-> [f \in 1..Len(blk) |-> blk[f].score]]

GridScores(o, n_folds, isiid) ==
    [b \in 1..Cardinality(BlockStarts(Len(o), n_folds)) |->
        CVScoreTuple(Block(o, (b - 1) * n_folds, n_folds), n_folds, isiid)]

\* comparison of two means num/den (den > 0)
MeanLess(a, b) == a.num * b.den < b.num * a.den
MeanEq(a, b) == a.num * b.den = b.num * a.den

(***************************************************************************)
(* sorted(grid_scores, key = mean_validation_score, reverse = True): a     *)
(* stable sort, equal keys keep their original order.                      *)
(***************************************************************************)
RECURSIVE InsertReverseUnstable(_, _)
InsertReverseUnstable(srt, x) ==
    IF srt = <<>> THEN <<x>>
    ELSE IF ~MeanLess(x.mean_validation_score, Head(srt).mean_validation_score)
         THEN <<x>> \o srt
         ELSE <<Head(srt)>> \o InsertReverseUnstable(Tail(srt), x)

RECURSIVE InsertReverse(_, _)
InsertReverse(srt, x) ==
    IF srt = <<>> THEN <<x>>
    ELSE IF MeanLess(Head(srt).mean_validation_score, x.mean_validation_score)
         THEN <<x>> \o srt
         ELSE <<Head(srt)>> \o InsertReverse(Tail(srt), x)

RECURSIVE SortedReverse(_)
SortedReverse(gs) ==
    IF gs = <<>> THEN <<>>
    ELSE InsertReverse(SortedReverse(SubSeq(gs, 1, Len(gs) - 1)), gs[Len(gs)])

Best(gs) == SortedReverse(gs)[1]

(***************************************************************************)
(* two_bias_scorer_CV.  Probabilities are integers (only their order       *)
(* matters); the ratios are compared with 0.95 exactly, as fractions.      *)
(***************************************************************************)
ThreshNum == 95
ThreshDen == 100

\* num / den >= 0.95 in numpy arithmetic: x/0 is inf for x > 0 and nan for
\* x = 0, and a comparison with nan is false
Ratio95Half(num, den) == IF den = 0 THEN num > 0 ELSE 2 * num >= den
Ratio95(num, den) == IF den = 0 THEN num > 0 ELSE ThreshDen * num >= ThreshNum * den

FracLess(a, b) == a.num * b.den < b.num * a.den

\* db = transpose(vstack([probs, y])); db[argsort(db[:, 0])]: the rows in
\* rising probability; rows of equal probability in any order (argsort's
\* default kind is not stable)
RECURSIVE ArgsortFrom(_, _)
ArgsortFrom(probs, rest) ==
    IF rest = {} THEN {<<>>}
    ELSE LET mins == {m \in rest : \A z \in rest : probs[m] <= probs[z]}
         IN  UNION {{<<m>> \o t : t \in ArgsortFrom(probs, rest \ {m})} : m \in mins}
Argsort(probs) == ArgsortFrom(probs, DOMAIN probs)
SortedDb(probs, y, order) == [x \in DOMAIN order |-> [p |-> probs[order[x]], y |-> y[order[x]]]]

\* pos = np.sum(y == 1)
CountPos(d) == Cardinality({x \in DOMAIN d : d[x].y = 1})

\* the loop over j of lines 259-276, from j on; st holds running_pos,
\* running_neg, running_tp, running_tn, minloss, optbias
RECURSIVE InnerScanLast(_, _, _, _)
InnerScanLast(d, i, j, st) ==
    IF j > Len(d) THEN st
    ELSE LET s1 == IF d[j].y = 1
                   THEN [st EXCEPT !.running_tp = @ - 1, !.running_pos = @ - 1]
                   ELSE [st EXCEPT !.running_neg = @ - 1]
             lost == [num |-> j - i, den |-> Len(d)]
         IN  IF s1.running_pos = 0 \/ s1.running_neg = 0 THEN s1
             ELSE IF /\ Ratio95(s1.running_tp, s1.running_pos)
                     /\ Ratio95(s1.running_tn, s1.running_neg)
                  THEN InnerScanLast(d, i, j + 1,
                          [s1 EXCEPT !.minloss = lost, !.optbias = <<d[i].p, d[j].p>>])
                  ELSE InnerScanLast(d, i, j + 1, s1)

RECURSIVE InnerScan(_, _, _, _)
InnerScan(d, i, j, st) ==
    IF j > Len(d) THEN st
    ELSE LET s1 == IF d[j].y = 1
                   THEN [st EXCEPT !.running_tp = @ - 1, !.running_pos = @ - 1]
                   ELSE [st EXCEPT !.running_neg = @ - 1]
             lost == [num |-> j - i, den |-> Len(d)]
         IN  IF s1.running_pos = 0 \/ s1.running_neg = 0 THEN s1
             ELSE IF /\ Ratio95(s1.running_tp, s1.running_pos)
                     /\ Ratio95(s1.running_tn, s1.running_neg)
                     /\ FracLess(lost, s1.minloss)
                  THEN InnerScan(d, i, j + 1,
                          [s1 EXCEPT !.minloss = lost, !.optbias = <<d[i].p, d[j].p>>])
                  ELSE InnerScan(d, i, j + 1, s1)

\* the loop over i of lines 240-276, from i on; st holds tp, tn, minloss,
\* optbias and divzero (a ratio with a zero denominator has been evaluated)
RECURSIVE OuterScan(_, _, _)
OuterScan(d, i, st) ==
    IF i > Len(d) THEN st
    ELSE LET pos == CountPos(d)
             neg == Len(d) - pos
             s1 == IF d[i].y = 1 THEN [st EXCEPT !.tp = @ - 1] ELSE [st EXCEPT !.tn = @ + 1]
             first == Ratio95(s1.tp, pos)
             s2 == [s1 EXCEPT !.divzero = @ \/ pos = 0 \/ (first /\ neg = 0)]
         IN  IF first /\ Ratio95(s2.tn, neg)
             THEN OuterScan(d, i + 1, [s2 EXCEPT !.optbias = <<d[i].p, d[i].p>>])
             ELSE LET r == InnerScan(d, i, i + 1,
                              [running_pos |-> pos, running_neg |-> neg,
                               running_tp |-> s2.tp, running_tn |-> s2.tn,
                               minloss |-> s2.minloss, optbias |-> s2.optbias])
                  IN  OuterScan(d, i + 1,
                          [s2 EXCEPT !.minloss = r.minloss, !.optbias = r.optbias])

\* two_bias_scorer_CV(probs, y, True) on the sorted rows d: (-minloss, optbias)
two_bias_scorer_CV(d) ==
    LET r == OuterScan(d, 1, [tp |-> CountPos(d), tn |-> 0,
                              minloss |-> [num |-> 1, den |-> 1],
                              optbias |-> <<>>, divzero |-> FALSE])
    IN  [score |-> [num |-> 0 - r.minloss.num, den |-> r.minloss.den],
         bias |-> [kind |-> "list", v |-> r.optbias],
         divzero |-> r.divzero]

(***************************************************************************)
(* f1_bias_scorer_CV.  precision_recall_curve(y, probs) gives, in rising   *)
(* order, the distinct probabilities from the lowest probability of a      *)
(* positive upwards (the highest probability alone when there is no        *)
(* positive); at threshold t precision = tp/(rows >= t), recall = tp/pos.  *)
(***************************************************************************)
PRThresholds(probs, y) ==
    LET vals == {probs[x] : x \in DOMAIN probs}
        posv == {probs[x] : x \in {z \in DOMAIN probs : y[z] = 1}}
    IN  IF posv = {} THEN {t \in vals : \A u \in vals : u <= t}
        ELSE {t \in vals : \E u \in posv : \A w \in posv : u <= w /\ u <= t}

RECURSIVE F1ScanLast(_, _, _, _)
F1ScanLast(probs, y, todo, st) ==
    IF todo = {} THEN st
    ELSE LET t == CHOOSE u \in todo : \A w \in todo : u <= w
             tp == Cardinality({x \in DOMAIN probs : probs[x] >= t /\ y[x] = 1})
             sel == Cardinality({x \in DOMAIN probs : probs[x] >= t})
             pos == Cardinality({x \in DOMAIN probs : y[x] = 1})
             f == [num |-> 2 * tp, den |-> sel + pos]
         IN  IF tp > 0 /\ ~FracLess(f, st.f1)
             THEN F1ScanLast(probs, y, todo \ {t}, [f1 |-> f, bias |-> t])
             ELSE F1ScanLast(probs, y, todo \ {t}, st)

RECURSIVE F1Scan(_, _, _, _)
F1Scan(probs, y, todo, st) ==
    IF todo = {} THEN st
    ELSE LET t == CHOOSE u \in todo : \A w \in todo : u <= w
             tp == Cardinality({x \in DOMAIN probs : probs[x] >= t /\ y[x] = 1})
             sel == Cardinality({x \in DOMAIN probs : probs[x] >= t})
             pos == Cardinality({x \in DOMAIN probs : y[x] = 1})
             \* 2 * (precision * recall) / (precision + recall) = 2 tp / (sel + pos)
             f == [num |-> 2 * tp, den |-> sel + pos]
         IN  IF tp > 0 /\ FracLess(st.f1, f)
             THEN F1Scan(probs, y, todo \ {t}, [f1 |-> f, bias |-> t])
             ELSE F1Scan(probs, y, todo \ {t}, st)

f1_bias_scorer_CV(probs, y) ==
    LET r == F1Scan(probs, y, PRThresholds(probs, y), [f1 |-> [num |-> 0, den |-> 1], bias |-> 0])
    IN  [score |-> r.f1, bias |-> [kind |-> "scalar", v |-> r.bias], divzero |-> FALSE]

\* bias == [] in main: only an empty list equals []
IsEmptyList(b) == b.kind = "list" /\ b.v = <<>>

(***************************************************************************)
(* main's decision rule on the final predictions (lines 698-703)           *)
(***************************************************************************)
Classified(probs, b) ==
    IF b.kind = "scalar" THEN DOMAIN probs
    ELSE {x \in DOMAIN probs : probs[x] <= b.v[1] \/ probs[x] >= b.v[2]}
Predicted(probs, b) ==
    IF b.kind = "scalar" THEN {x \in DOMAIN probs : probs[x] >= b.v}
    ELSE {x \in Classified(probs, b) : probs[x] >= b.v[2]}

(***************************************************************************)
(* cross_val_probs: the rows a fold's model is fitted on and the rows its  *)
(* predictions are written to.                                             *)
(***************************************************************************)
FitRowsAll(fold) == fold.train \cup fold.test
\* estimator.fit(X[train], y[train])
FitRows(fold) == fold.train
\* predicted_values[test] = temp[:, 1]
WriteRows(fold) == fold.test

(***************************************************************************)
(* The estimator objects.  clone() gives a new unfitted object with the    *)
(* same parameters; fit(X[rows], y[rows]) refits the object in place.      *)
(***************************************************************************)
DefaultParams == 0
Unfitted(params) == [params |-> params, fitted |-> FALSE, on |-> {}]
Clone(obj) == Unfitted(obj.params)
SetParams(obj, params) == [obj EXCEPT !.params = params]
Fit(obj, rows) == [obj EXCEPT !.fitted = TRUE, !.on = rows]

NoEstimators == [name \in {"svc", "base", "best"} |-> None]

(***************************************************************************)
(* GridSearchCVSparkParallel.fit / RandomGridSearchCVSparkParallel.fit     *)
(***************************************************************************)
\* Entry of fit up to the dispatch of the work items: the parameter
\* iterable, the clone of the template, the indexed work list, the two
\* broadcasts.
FitStart ==
    /\ pc = "fit"
    /\ \E piter \in (IF whichsearch = "grid" THEN {ParameterGrid(space)}
                                             ELSE ParameterSampler(space, n_iter)) :
          /\ parameter_iterable' = piter
          /\ param_grid' = MakeParamGrid(piter, cv)
          /\ pending' = {x - 1 : x \in 1..(Len(piter) * Len(cv))}
    /\ estimators' = [estimators EXCEPT !["base"] = Clone(estimators["svc"])]
    /\ X_bc' = "live"
    /\ y_bc' = "live"
    /\ collected' = <<>>
    /\ pc' = "map"
    /\ UNCHANGED <<subjects, whichsearch, space, n_iter, iid, refit, scoring, scorer_, cv,
                   out, grid_scores_, best_params_, best_score_, best_estimator_,
                   scorer_log>>
    /\ UNCHANGED <<cvvars, mainvars>>

\* local_fit on a worker: clone the base estimator, _fit_and_score on the
\* item's (train, test) with self.scorer_, return (index, res).  The
\* estimator's score is opaque: any value of 0..MaxScore.
LocalFit(index) ==
    /\ pc = "map"
    /\ index \in pending
    /\ X_bc = "live" /\ y_bc = "live"
    /\ \E this_score \in 0..MaxScore :
          LET item == param_grid[index + 1]
              res == [score |-> this_score,
                      n_test_samples |-> Cardinality(item.test),
                      parameters |-> item.parameters]
          IN  collected' = Append(collected, <<index, res>>)
    /\ pending' = pending \ {index}
    /\ scorer_log' = scorer_log \cup {[at |-> "search", fn |-> scorer_]}
    /\ UNCHANGED <<pc, subjects, whichsearch, space, n_iter, iid, refit, scoring, scorer_,
                   cv, parameter_iterable, param_grid, out, X_bc, y_bc, grid_scores_, best_params_,
                   best_score_, best_estimator_, estimators>>
    /\ UNCHANGED <<cvvars, mainvars>>

\* a search that on a failed work item still hands out an estimator
LocalFitRaisesPartial(index) ==
    /\ pc = "map"
    /\ index \in pending
    /\ pc' = "raised"
    /\ best_estimator_' = "base"
    /\ UNCHANGED <<subjects, whichsearch, space, n_iter, iid, refit, scoring, scorer_, cv,
                   parameter_iterable, param_grid, pending, collected, out, X_bc, y_bc,
                   grid_scores_, best_params_, best_score_, estimators, scorer_log>>
    /\ UNCHANGED <<cvvars, mainvars>>

\* error_score = 'raise': a fit or score that raises on a worker fails the
\* job, collect() raises in the driver and fit is left at that point.
LocalFitRaises(index) ==
    /\ pc = "map"
    /\ index \in pending
    /\ pc' = "raised"
    /\ UNCHANGED <<searchvars, cvvars, mainvars>>

\* collect() has every pair; rebuild the list in index order and release
\* the broadcasts.
Collect ==
    /\ pc = "map"
    /\ pending = {}
    /\ out' = Reorder(collected, Len(param_grid))
    /\ X_bc' = "released"
    /\ y_bc' = "released"
    /\ pc' = "aggregate"
    /\ UNCHANGED <<subjects, whichsearch, space, n_iter, iid, refit, scoring, scorer_, cv,
                   parameter_iterable, param_grid, pending, collected, grid_scores_, best_params_,
                   best_score_, best_estimator_, estimators, scorer_log>>
    /\ UNCHANGED <<cvvars, mainvars>>

\* grouping into blocks of n_folds, the mean per block, the best by sorted()
Aggregate ==
    /\ pc = "aggregate"
    /\ LET gs == GridScores(out, Len(cv), iid)
       IN  /\ grid_scores_' = gs
           /\ best_params_' = Best(gs).parameters
           /\ best_score_' = Best(gs).mean_validation_score
    /\ pc' = "refit"
    /\ UNCHANGED <<subjects, whichsearch, space, n_iter, iid, refit, scoring, scorer_, cv,
                   parameter_iterable, param_grid, pending, collected, out, X_bc, y_bc, best_estimator_,
                   estimators, scorer_log>>
    /\ UNCHANGED <<cvvars, mainvars>>

\* if self.refit: clone the base estimator, set the best parameters, fit on
\* the entire dataset; then fit returns
Refit ==
    /\ pc = "refit"
    /\ IF refit
       THEN /\ estimators' = [estimators EXCEPT !["best"] =
                    Fit(SetParams(Clone(estimators["base"]), best_params_), Samples)]
            /\ best_estimator_' = "best"
       ELSE UNCHANGED <<estimators, best_estimator_>>
    \* return self: fit's local lists are gone
    /\ parameter_iterable' = <<>>
    /\ param_grid' = <<>>
    /\ collected' = <<>>
    /\ out' = <<>>
    /\ pc' = "fit_done"
    /\ UNCHANGED <<subjects, whichsearch, space, n_iter, iid, refit, scoring, scorer_, cv,
                   pending, X_bc, y_bc, grid_scores_, best_params_, best_score_,
                   scorer_log>>
    /\ UNCHANGED <<cvvars, mainvars>>

(***************************************************************************)
(* Subject assignments: read_features appends the rows file by file, one   *)
(* file per participant, so the rows of a subject are adjacent; subjects   *)
(* are numbered in order of appearance.  At least two subjects, as         *)
(* LabelKFold needs two folds.                                             *)
(***************************************************************************)
SubjectAssignments ==
    {subj \in [Samples -> Samples] :
        /\ subj[1] = 1
        /\ \A s \in Samples : s > 1 => subj[s] \in {subj[s - 1], subj[s - 1] + 1}
        /\ Cardinality(SubjectIds(subj)) >= 2}

NoReport == [kind |-> "none", classified |-> {}, predicted |-> {}]

\* cross_val_probs and main not running
CVIdle ==
    /\ cv_estimator = None
    /\ cv_i = 0
    /\ predicted_values = <<>>
    /\ pred_writes = <<>>
MainIdle ==
    /\ args_scorer = None
    /\ scorer = None
    /\ trainlabels = <<>>
    /\ CV_probs = <<>>
    /\ db = <<>>
    /\ score = None
    /\ bias = None
    /\ saved_model = {}
    /\ report = NoReport

\* a search object constructed as main constructs it (scoring = None), with
\* either value of iid and of refit, before fit
InitSearch ==
    /\ pc = "fit"
    /\ subjects \in SubjectAssignments
    /\ whichsearch \in {"grid", "random"}
    /\ space \in 1..MaxSettings
    /\ n_iter \in 1..MaxSettings
    /\ IF whichsearch = "grid" THEN n_iter = 1 ELSE n_iter <= space
    /\ (IF whichsearch = "grid" THEN space ELSE n_iter)
            * Cardinality(SubjectIds(subjects)) <= MaxItems
    /\ iid \in BOOLEAN
    /\ refit \in BOOLEAN
    /\ scoring = None
    /\ scorer_ = check_scoring(scoring)
    /\ cv = LabelKFold(subjects)
    /\ parameter_iterable = <<>>
    /\ param_grid = <<>>
    /\ pending = {}
    /\ collected = <<>>
    /\ out = <<>>
    /\ X_bc = None
    /\ y_bc = None
    /\ grid_scores_ = None
    /\ best_params_ = None
    /\ best_score_ = None
    /\ best_estimator_ = None
    /\ estimators = [NoEstimators EXCEPT !["svc"] = Unfitted(DefaultParams)]
    /\ scorer_log = {}
    /\ CVIdle
    /\ MainIdle

NextSearch ==
    \/ FitStart
    \/ \E index \in 0..(MaxItems - 1) : LocalFit(index)
    \/ \E index \in 0..(MaxItems - 1) : LocalFitRaises(index)
    \/ Collect
    \/ Aggregate
    \/ Refit

SpecSearch == InitSearch /\ [][NextSearch]_vars

(***************************************************************************)
(* cross_val_probs(estimator, X, y, cv)                                    *)
(***************************************************************************)
\* one turn of the loop over the folds: refit the given estimator object in
\* place on the fold's training rows, predict the test rows (any
\* probabilities), write them at the test indices
CVFold ==
    /\ pc = "cv"
    /\ cv_i < Len(cv)
    /\ LET fold == cv[cv_i + 1]
           fitted == Fit(estimators[cv_estimator], FitRows(fold))
       IN  /\ estimators' = [estimators EXCEPT ![cv_estimator] = fitted]
           /\ \E temp \in [WriteRows(fold) -> 1..MaxProb] :
                 predicted_values' =
                    [s \in DOMAIN predicted_values |->
                        IF s \in WriteRows(fold) THEN temp[s] ELSE predicted_values[s]]
           /\ pred_writes' =
                 [s \in DOMAIN pred_writes |->
                     IF s \in WriteRows(fold) THEN Append(pred_writes[s], fitted.on)
                                              ELSE pred_writes[s]]
    /\ cv_i' = cv_i + 1
    /\ UNCHANGED <<pc, cv_estimator, mainvars>>
    /\ UNCHANGED <<subjects, whichsearch, space, n_iter, iid, refit, scoring, scorer_, cv,
                   parameter_iterable, param_grid, pending, collected, out, X_bc, y_bc,
                   grid_scores_, best_params_, best_score_, best_estimator_, scorer_log>>

\* return predicted_values
CVReturn ==
    /\ pc = "cv"
    /\ cv_i = Len(cv)
    /\ CV_probs' = predicted_values
    /\ pc' = "score"
    /\ UNCHANGED <<searchvars, cvvars>>
    /\ UNCHANGED <<args_scorer, scorer, trainlabels, db, score, bias, saved_model, report>>

(***************************************************************************)
(* cstress_spark_parallel_fold_param_model_main                            *)
(***************************************************************************)
\* lines 641-679: the data, the fold plan, the SVC template, the scorer
\* chosen by args.scorer, the search object chosen by args.whichsearch
MainStart ==
    /\ pc = "main"
    /\ cv' = LabelKFold(subjects)
    /\ estimators' = [estimators EXCEPT !["svc"] = Unfitted(DefaultParams)]
    /\ scorer' = IF args_scorer = "f1" THEN "f1_bias_scorer_CV" ELSE "two_bias_scorer_CV"
    /\ scoring' = None
    /\ scorer_' = check_scoring(None)
    /\ iid' = FALSE
    /\ refit' = TRUE
    /\ pc' = "fit"
    /\ UNCHANGED <<subjects, whichsearch, space, n_iter, parameter_iterable, param_grid,
                   pending, collected, out, X_bc, y_bc, grid_scores_, best_params_,
                   best_score_, best_estimator_, scorer_log>>
    /\ UNCHANGED <<cvvars, args_scorer, trainlabels, CV_probs, db, score, bias,
                   saved_model, report>>

\* lines 683-689: after clf.fit, the call cross_val_probs(clf.best_estimator_,
\* traindata, trainlabels, lkf), up to predicted_values = np.zeros(len(y))
MainCallCV ==
    /\ pc = "fit_done"
    /\ trainlabels # <<>>
    /\ cv_estimator' = best_estimator_
    /\ cv_i' = 0
    /\ predicted_values' = [s \in DOMAIN trainlabels |-> 0]
    /\ pred_writes' = [s \in DOMAIN trainlabels |-> <<>>]
    /\ pc' = "cv"
    /\ UNCHANGED <<searchvars, mainvars>>

\* line 690: score, bias = scorer(CV_probs, trainlabels, True)
FinalScore ==
    /\ pc = "score"
    /\ scorer # None
    /\ IF scorer = "two_bias_scorer_CV"
       THEN \E order \in Argsort(CV_probs) :
               LET d == SortedDb(CV_probs, trainlabels, order)
                   r == two_bias_scorer_CV(d)
               IN  /\ db' = d
                   /\ score' = r.score
                   /\ bias' = r.bias
       ELSE /\ db' = <<>>
            /\ score' = f1_bias_scorer_CV(CV_probs, trainlabels).score
            /\ bias' = f1_bias_scorer_CV(CV_probs, trainlabels).bias
    /\ scorer_log' = scorer_log \cup {[at |-> "final", fn |-> scorer]}
    /\ pc' = "scored"
    /\ UNCHANGED <<subjects, whichsearch, space, n_iter, iid, refit, scoring, scorer_, cv,
                   parameter_iterable, param_grid, pending, collected, out, X_bc, y_bc,
                   grid_scores_, best_params_, best_score_, best_estimator_, estimators>>
    /\ UNCHANGED <<cvvars, args_scorer, scorer, trainlabels, CV_probs, saved_model, report>>

\* lines 693-710: bias is not []: save_model(clf.best_estimator_, bias) and
\* the report on the classified samples
SaveAndReport ==
    /\ pc = "scored"
    /\ ~IsEmptyList(bias)
    /\ saved_model' = saved_model \cup {[model |-> estimators[best_estimator_], bias |-> bias]}
    /\ report' = [kind |-> "report",
                  classified |-> Classified(CV_probs, bias),
                  predicted |-> Predicted(CV_probs, bias)]
    /\ pc' = "done"
    /\ UNCHANGED <<searchvars, cvvars>>
    /\ UNCHANGED <<args_scorer, scorer, trainlabels, CV_probs, db, score, bias>>

\* a main that writes the model file whatever the scorer returned
NotGoodButSaved ==
    /\ pc = "scored"
    /\ IsEmptyList(bias)
    /\ saved_model' = saved_model \cup {[model |-> estimators[best_estimator_], bias |-> bias]}
    /\ report' = [NoReport EXCEPT !.kind = "Results not good"]
    /\ pc' = "done"
    /\ UNCHANGED <<searchvars, cvvars>>
    /\ UNCHANGED <<args_scorer, scorer, trainlabels, CV_probs, db, score, bias>>

\* lines 711-712: print("Results not good")
NotGood ==
    /\ pc = "scored"
    /\ IsEmptyList(bias)
    /\ report' = [NoReport EXCEPT !.kind = "Results not good"]
    /\ pc' = "done"
    /\ UNCHANGED <<searchvars, cvvars>>
    /\ UNCHANGED <<args_scorer, scorer, trainlabels, CV_probs, db, score, bias, saved_model>>

\* the program as started from the command line
Init ==
    /\ pc = "main"
    /\ subjects \in SubjectAssignments
    /\ trainlabels \in [Samples -> {0, 1}]
    /\ args_scorer \in {"f1", "twobias"}
    /\ whichsearch \in {"grid", "random"}
    /\ space \in 1..MaxSettings
    /\ n_iter \in 1..MaxSettings
    /\ IF whichsearch = "grid" THEN n_iter = 1 ELSE n_iter <= space
    /\ (IF whichsearch = "grid" THEN space ELSE n_iter)
            * Cardinality(SubjectIds(subjects)) <= MaxItems
    /\ iid = None
    /\ refit = None
    /\ scoring = None
    /\ scorer_ = None
    /\ cv = <<>>
    /\ parameter_iterable = <<>>
    /\ param_grid = <<>>
    /\ pending = {}
    /\ collected = <<>>
    /\ out = <<>>
    /\ X_bc = None
    /\ y_bc = None
    /\ grid_scores_ = None
    /\ best_params_ = None
    /\ best_score_ = None
    /\ best_estimator_ = None
    /\ estimators = NoEstimators
    /\ scorer_log = {}
    /\ CVIdle
    /\ scorer = None
    /\ CV_probs = <<>>
    /\ db = <<>>
    /\ score = None
    /\ bias = None
    /\ saved_model = {}
    /\ report = NoReport

Next ==
    \/ MainStart
    \/ FitStart
    \/ \E index \in 0..(MaxItems - 1) : LocalFit(index)
    \/ \E index \in 0..(MaxItems - 1) : LocalFitRaises(index)
    \/ Collect
    \/ Aggregate
    \/ Refit
    \/ MainCallCV
    \/ CVFold
    \/ CVReturn
    \/ FinalScore
    \/ SaveAndReport
    \/ NotGood

Spec == Init /\ [][Next]_vars

(***************************************************************************)
(* cross_val_probs on any fold plan whose test sets partition the samples  *)
(* and whose training sets are non-empty and disjoint from the test set.   *)
(* The folds are listed by rising least test index.                        *)
(***************************************************************************)
Partitions ==
    {P \in SUBSET (SUBSET Samples \ {{}}) :
        /\ UNION P = Samples
        /\ \A a, b \in P : a # b => a \cap b = {}}

LeastOf(S) == CHOOSE m \in S : \A z \in S : m <= z

RECURSIVE PlansOver(_)
PlansOver(P) ==
    IF P = {} THEN {<<>>}
    ELSE LET first == CHOOSE b \in P : \A c \in P : LeastOf(b) <= LeastOf(c)
         IN  {<<[train |-> tr, test |-> first]>> \o rest :
                 tr \in (SUBSET (Samples \ first)) \ {{}},
                 rest \in PlansOver(P \ {first})}

FoldPlans == UNION {PlansOver(P) : P \in Partitions}

InitCV ==
    /\ pc = "cv"
    /\ cv \in FoldPlans
    /\ trainlabels = [s \in Samples |-> s % 2]
    /\ cv_estimator = "svc"
    /\ estimators = [NoEstimators EXCEPT !["svc"] = Unfitted(DefaultParams)]
    /\ cv_i = 0
    /\ predicted_values = [s \in Samples |-> 0]
    /\ pred_writes = [s \in Samples |-> <<>>]
    /\ subjects = <<>>
    /\ whichsearch = None
    /\ space = 0
    /\ n_iter = 0
    /\ iid = None
    /\ refit = None
    /\ scoring = None
    /\ scorer_ = None
    /\ parameter_iterable = <<>>
    /\ param_grid = <<>>
    /\ pending = {}
    /\ collected = <<>>
    /\ out = <<>>
    /\ X_bc = None
    /\ y_bc = None
    /\ grid_scores_ = None
    /\ best_params_ = None
    /\ best_score_ = None
    /\ best_estimator_ = None
    /\ scorer_log = {}
    /\ args_scorer = None
    /\ scorer = None
    /\ CV_probs = <<>>
    /\ db = <<>>
    /\ score = None
    /\ bias = None
    /\ saved_model = {}
    /\ report = NoReport

NextCV == CVFold \/ CVReturn

SpecCV == InitCV /\ [][NextCV]_vars

(***************************************************************************)
(* The scorer call and main's use of its result, on any predictions and    *)
(* labels: every input of up to MaxN rows, and long inputs made of a block *)
(* of Bulk negatives, up to MaxMid rows of any labels, and a block of Bulk *)
(* positives, in rising probability (either block may be missing).         *)
(***************************************************************************)
ShortInputs ==
    UNION {[probs : [1..n -> 1..n], y : [1..n -> {0, 1}]] : n \in 0..MaxN}

LongInput(low, mid, high) ==
    [probs |-> [x \in 1..(low + Len(mid) + high) |-> x],
     y |-> [x \in 1..(low + Len(mid) + high) |->
               IF x <= low THEN 0 ELSE IF x <= low + Len(mid) THEN mid[x - low] ELSE 1]]

LongInputs ==
    {LongInput(low, mid, high) :
        low \in {0, Bulk}, high \in {0, Bulk},
        mid \in UNION {[1..m -> {0, 1}] : m \in 0..MaxMid}}

InitScorer ==
    /\ pc = "score"
    /\ args_scorer \in {"f1", "twobias"}
    /\ scorer = (IF args_scorer = "f1" THEN "f1_bias_scorer_CV" ELSE "two_bias_scorer_CV")
    /\ \E inp \in ShortInputs \cup LongInputs :
          /\ CV_probs = inp.probs
          /\ trainlabels = inp.y
    /\ best_estimator_ = "best"
    /\ estimators = [NoEstimators EXCEPT !["best"] = Fit(Unfitted(DefaultParams), {})]
    /\ db = <<>>
    /\ score = None
    /\ bias = None
    /\ saved_model = {}
    /\ report = NoReport
    /\ CVIdle
    /\ subjects = <<>>
    /\ whichsearch = None
    /\ space = 0
    /\ n_iter = 0
    /\ iid = None
    /\ refit = None
    /\ scoring = None
    /\ scorer_ = None
    /\ cv = <<>>
    /\ parameter_iterable = <<>>
    /\ param_grid = <<>>
    /\ pending = {}
    /\ collected = <<>>
    /\ out = <<>>
    /\ X_bc = None
    /\ y_bc = None
    /\ grid_scores_ = None
    /\ best_params_ = None
    /\ best_score_ = None
    /\ scorer_log = {}

NextScorer == FinalScore \/ SaveAndReport \/ NotGood

SpecScorer == InitScorer /\ [][NextScorer]_vars

(***************************************************************************)
(* Properties of the search.                                               *)
(***************************************************************************)
\* the driver is past collect() and still in fit: out has been built
AfterCollect == pc \in {"aggregate", "refit"}
\* the driver is past the aggregation and still in fit
AfterAggregate == pc = "refit"

\* what the worker returned for the work item with sequence index idx
ResultOfIndex(idx) ==
    (CHOOSE x \in DOMAIN collected : collected[x][1] = idx) 
ResultsByIndex ==
    [x \in 1..Len(param_grid) |-> collected[ResultOfIndex(x - 1)][2]]

\* C1: whatever the order in which the work items complete and are
\* collected, position i of the list handed to aggregation holds the result
\* of the work item with sequence index i, and the grid scores, the best
\* parameters and the best score are those of the per-index results alone.
C1_ResultsInIndexOrder ==
    /\ AfterCollect =>
          /\ Len(out) = Len(param_grid)
          /\ \A x \in DOMAIN collected : out[collected[x][1] + 1] = collected[x][2]
          /\ \A x \in DOMAIN out :
                /\ out[x].parameters = param_grid[x].parameters
                /\ out[x].n_test_samples = Cardinality(param_grid[x].test)
    /\ AfterAggregate =>
          /\ grid_scores_ = GridScores(ResultsByIndex, Len(cv), iid)
          /\ best_params_ = Best(GridScores(ResultsByIndex, Len(cv), iid)).parameters
          /\ best_score_ =
                Best(GridScores(ResultsByIndex, Len(cv), iid)).mean_validation_score

\* an aggregated search whose results arrived out of index order, two of them
\* that differ having arrived swapped
C1_Witness ==
    /\ pc = "refit"
    /\ \E x, z \in DOMAIN collected :
          /\ x < z
          /\ collected[x][1] > collected[z][1]
          /\ collected[x][2] # collected[z][2]

\* number of candidate settings of the call
NCandidates == IF whichsearch = "grid" THEN space ELSE n_iter

\* C4: the best result has a maximal mean score over all settings, and
\* among settings with exactly that mean it is the one generated earliest.
C4_BestIsEarliestMaximum ==
    AfterAggregate =>
        \E b \in DOMAIN grid_scores_ :
            /\ best_params_ = parameter_iterable[b]
            /\ best_score_ = grid_scores_[b].mean_validation_score
            /\ \A m \in DOMAIN grid_scores_ :
                  ~MeanLess(best_score_, grid_scores_[m].mean_validation_score)
            /\ \A m \in DOMAIN grid_scores_ :
                  m < b => MeanLess(grid_scores_[m].mean_validation_score, best_score_)

\* an aggregated search in which two settings tie for the maximal mean with
\* different per-fold scores
C4_Witness ==
    /\ pc = "refit"
    /\ \E a, b \in DOMAIN grid_scores_ :
          /\ a < b
          /\ MeanEq(grid_scores_[a].mean_validation_score,
                    grid_scores_[b].mean_validation_score)
          /\ grid_scores_[a].cv_validation_scores # grid_scores_[b].cv_validation_scores
          /\ best_params_ = parameter_iterable[a]
          /\ \A m \in DOMAIN grid_scores_ :
                ~MeanLess(grid_scores_[a].mean_validation_score,
                          grid_scores_[m].mean_validation_score)

\* the result a worker returned for fold f of the m-th generated setting
ResultFor(m, f) ==
    LET x == CHOOSE z \in DOMAIN collected :
                 /\ param_grid[collected[z][1] + 1].parameters = parameter_iterable[m]
                 /\ param_grid[collected[z][1] + 1].test = cv[f].test
                 /\ param_grid[collected[z][1] + 1].train = cv[f].train
    IN  collected[x][2]

\* C5: P settings and k folds give exactly P*k work results and exactly P
\* aggregate scores in generation order; the m-th aggregate carries the
\* m-th generated setting and is computed from the k per-fold results of
\* that setting, in fold order, and from no other result.
C5_BlocksPerSetting ==
    /\ AfterCollect =>
          /\ Len(collected) = NCandidates * Len(cv)
          /\ Len(out) = NCandidates * Len(cv)
          /\ Len(cv) = Cardinality(SubjectIds(subjects))
    /\ AfterAggregate =>
          /\ Len(grid_scores_) = NCandidates
          /\ \A m \in DOMAIN grid_scores_ :
                LET own == [f \in 1..Len(cv) |-> ResultFor(m, f)]
                IN  /\ grid_scores_[m].parameters = parameter_iterable[m]
                    /\ grid_scores_[m].cv_validation_scores =
                          [f \in 1..Len(cv) |-> own[f].score]
                    /\ grid_scores_[m].mean_validation_score.num = SumScore(own, iid)
                    /\ \A f \in 1..Len(cv) : own[f].parameters = parameter_iterable[m]

\* an aggregated search over two or more settings and folds whose results
\* differ within a block and between the blocks
C5_Witness ==
    /\ pc = "refit"
    /\ NCandidates >= 2
    /\ Len(cv) >= 2
    /\ Len(grid_scores_) = NCandidates
    /\ grid_scores_[1].cv_validation_scores # grid_scores_[2].cv_validation_scores
    /\ \E f, g \in 1..Len(cv) :
          grid_scores_[1].cv_validation_scores[f] # grid_scores_[1].cv_validation_scores[g]

\* sum over the folds 1..f of the m-th setting of score * weight, the weight
\* being the size of the fold's test set or 1
RECURSIVE FoldSum(_, _, _)
FoldSum(m, f, bySize) ==
    IF f = 0 THEN 0
    ELSE ResultFor(m, f).score * (IF bySize THEN Cardinality(cv[f].test) ELSE 1)
         + FoldSum(m, f - 1, bySize)

RECURSIVE TestSizeSum(_)
TestSizeSum(f) == IF f = 0 THEN 0 ELSE Cardinality(cv[f].test) + TestSizeSum(f - 1)

\* C11: the mean score of every setting is sum(score_f * test_size_f) /
\* sum(test_size_f) over its k folds when iid is set and sum(score_f) / k
\* when it is not; the stored per-fold scores are the k fold scores as the
\* workers returned them, in either mode.
C11_MeanScorePerMode ==
    AfterAggregate =>
        \A m \in DOMAIN grid_scores_ :
            LET mean == grid_scores_[m].mean_validation_score
                k == Len(cv)
            IN  /\ mean.den > 0
                /\ IF iid
                   THEN mean.num * TestSizeSum(k) = FoldSum(m, k, TRUE) * mean.den
                   ELSE mean.num * k = FoldSum(m, k, FALSE) * mean.den
                /\ grid_scores_[m].cv_validation_scores =
                      [f \in 1..k |-> ResultFor(m, f).score]

\* an aggregated search with iid set, a setting whose folds differ in test
\* size and in score, so that its size-weighted mean is not its plain mean
C11_Witness ==
    /\ pc = "refit"
    /\ iid = TRUE
    /\ \E m \in DOMAIN grid_scores_ :
          /\ \E f, g \in 1..Len(cv) :
                /\ Cardinality(cv[f].test) # Cardinality(cv[g].test)
                /\ ResultFor(m, f).score # ResultFor(m, g).score
          /\ FoldSum(m, Len(cv), TRUE) * Len(cv)
                # FoldSum(m, Len(cv), FALSE) * TestSizeSum(Len(cv))
          /\ grid_scores_[m].mean_validation_score.num = FoldSum(m, Len(cv), TRUE)

\* C12: under error_score = 'raise', when the fit/score step of a work item
\* raises, the search call fails and leaves no partial output: no reordered
\* result list, no grid scores, no best parameters, no best score and no
\* refit estimator are set by that call.
C12_FailedCallSetsNothing ==
    pc = "raised" =>
        /\ out = <<>>
        /\ grid_scores_ = None
        /\ best_params_ = None
        /\ best_score_ = None
        /\ best_estimator_ = None
        /\ estimators["best"] = None

\* a failed call in which some work items had already returned a result and
\* others had not
C12_Witness ==
    /\ pc = "raised"
    /\ collected # <<>>
    /\ pending # {}
    /\ Cardinality(pending) + Len(collected) = Len(param_grid)

\* C14: a search call that broadcast X and y has released both broadcasts
\* when it ends, by a normal return or by the failure of a work item, and
\* never releases one before every work item's result has been collected.
C14_BroadcastsReleasedAtCallEnd ==
    /\ pc \in {"fit_done", "raised"} => (X_bc = "released" /\ y_bc = "released")
    /\ (X_bc = "released" \/ y_bc = "released") =>
          /\ pending = {}
          /\ pc \in {"aggregate", "refit", "fit_done"}
          /\ AfterCollect => Len(collected) = Len(param_grid)

(***************************************************************************)
(* Properties of cross_val_probs.                                          *)
(***************************************************************************)
\* C6: on a fold plan whose test sets partition the samples, with train and
\* test disjoint in every fold, cross_val_probs returns one out-of-fold
\* probability per sample: every index is written exactly once (never
\* twice on the way), by a model fitted on rows that exclude that index.
C6_OneOutOfFoldValuePerSample ==
    /\ pc = "cv" => \A s \in DOMAIN pred_writes : Len(pred_writes[s]) <= 1
    /\ pc = "score" =>
          /\ DOMAIN CV_probs = DOMAIN trainlabels
          /\ \A s \in DOMAIN CV_probs :
                /\ Len(pred_writes[s]) = 1
                /\ s \notin pred_writes[s][1]
                /\ CV_probs[s] \in 1..MaxProb

\* a returned pass over two or more folds, one of them trained on less
\* than everything outside its test set
C6_Witness ==
    /\ pc = "score"
    /\ Len(cv) >= 2
    /\ \E f \in DOMAIN cv : cv[f].train # Samples \ cv[f].test
    /\ \E s, t \in DOMAIN CV_probs : pred_writes[s] # pred_writes[t]

(***************************************************************************)
(* Properties of the main routine.                                         *)
(***************************************************************************)
\* C2: the classifier handed to save_model carries the winning parameter
\* setting and is fitted on the entire dataset.
C2_SavedModelFittedOnAll ==
    \A file \in saved_model :
        /\ file.model.params = best_params_
        /\ file.model.fitted
        /\ file.model.on = Samples

\* C3: the scorer chosen by the caller is the scoring function of every
\* work item of the search and of the final call on the out-of-fold
\* predictions.
C3_ChosenScorerEverywhere ==
    pc = "done" =>
        /\ \A e \in scorer_log : e.fn = scorer
        /\ \E e \in scorer_log : e.at = "search"
        /\ \E e \in scorer_log : e.at = "final"

\* the final scorer call returned the empty threshold list
EmptyThreshold == bias.kind = "list" /\ bias.v = <<>>

\* C13: save_model is called and the report is produced only after the final
\* scorer call has returned a non-empty threshold; when the two-bias scorer
\* returns the empty threshold, the run ends with no model file and no
\* report.
C13_SaveAndReportOnlyWithThreshold ==
    /\ pc \in {"score", "scored"} => (saved_model = {} /\ report = NoReport)
    /\ (saved_model # {} \/ report.kind = "report") =>
          /\ pc = "done"
          /\ ~EmptyThreshold
          /\ \A file \in saved_model :
                /\ file.bias = bias
                /\ ~(file.bias.kind = "list" /\ file.bias.v = <<>>)
    /\ (pc = "done" /\ EmptyThreshold) =>
          /\ scorer = "two_bias_scorer_CV"
          /\ saved_model = {}
          /\ report.kind = "Results not good"
          /\ report.classified = {} /\ report.predicted = {}

\* a finished run on labelled rows of both classes for which the two-bias
\* scorer returned the empty threshold: nothing saved, nothing reported
C13_Witness ==
    /\ pc = "done"
    /\ scorer = "two_bias_scorer_CV"
    /\ EmptyThreshold
    /\ \E x, z \in DOMAIN trainlabels : trainlabels[x] = 1 /\ trainlabels[z] = 0
    /\ saved_model = {}
    /\ report.kind # "report"

(***************************************************************************)
(* Properties of two_bias_scorer_CV, stated on the sorted rows db.         *)
(***************************************************************************)
NPos(d, a, b) == Cardinality({x \in a..b : d[x].y = 1})
NNeg(d, a, b) == Cardinality({x \in a..b : d[x].y # 1})
AtLeast95(num, den) == den > 0 /\ ThreshDen * num >= ThreshNum * den

\* rows 1..i decided negative, the rows above decided positive
SingleCutOK(d, i) ==
    /\ AtLeast95(NPos(d, i + 1, Len(d)), NPos(d, 1, Len(d)))
    /\ AtLeast95(NNeg(d, 1, i), NNeg(d, 1, Len(d)))

\* rows 1..i decided negative, rows i+1..j rejected, the rows above j
\* decided positive
PairedCutOK(d, i, j) ==
    /\ AtLeast95(NPos(d, j + 1, Len(d)), NPos(d, 1, i) + NPos(d, j + 1, Len(d)))
    /\ AtLeast95(NNeg(d, 1, i), NNeg(d, 1, i) + NNeg(d, j + 1, Len(d)))

SomeSingleCut(d) == \E i \in DOMAIN d : SingleCutOK(d, i)
PairedCuts(d) == {c \in (DOMAIN d) \X (DOMAIN d) : c[1] < c[2] /\ PairedCutOK(d, c[1], c[2])}

Returned == pc \in {"scored", "done"} /\ scorer = "two_bias_scorer_CV"

\* C7: when a single threshold achieves sensitivity and specificity of
\* 0.95, the scorer returns a zero-width pair [t, t] and the score 0.
C7_SingleCutScoresZero ==
    (Returned /\ SomeSingleCut(db)) =>
        /\ Len(bias.v) = 2
        /\ bias.v[1] = bias.v[2]
        /\ score.num = 0

\* C8: a non-empty pair [lo, hi], applied as main applies it (<= lo
\* negative, >= hi positive, the rest rejected), gives sensitivity and
\* specificity of at least 0.95 among the decided samples.
C8_MainRuleMeetsConstraints ==
    (pc = "done" /\ scorer = "two_bias_scorer_CV" /\ ~IsEmptyList(bias)) =>
        LET decidedPos == {x \in report.classified : trainlabels[x] = 1}
            decidedNeg == {x \in report.classified : trainlabels[x] # 1}
        IN  /\ ThreshDen * Cardinality(decidedPos \cap report.predicted)
                  >= ThreshNum * Cardinality(decidedPos)
            /\ ThreshDen * Cardinality(decidedNeg \ report.predicted)
                  >= ThreshNum * Cardinality(decidedNeg)

\* C9: when no single cut meets both constraints and some paired cut
\* (i, j), j > i, does, the score is -(j-i)/n for a paired cut of least
\* j-i among those that meet them, and the thresholds are the values at
\* such a cut.
C9_LeastRejectedPair ==
    (Returned /\ ~SomeSingleCut(db) /\ PairedCuts(db) # {}) =>
        \E c \in PairedCuts(db) :
            /\ \A e \in PairedCuts(db) : c[2] - c[1] <= e[2] - e[1]
            /\ score = [num |-> 0 - (c[2] - c[1]), den |-> Len(db)]
            /\ bias.v = <<db[c[1]].p, db[c[2]].p>>

\* such a return where the best paired cut is not the first one met, meets
\* a constraint with a ratio below 1, and rejects more than one row
C9_Witness ==
    /\ pc = "scored"
    /\ ~SomeSingleCut(db)
    /\ \E c \in PairedCuts(db) :
          /\ \A e \in PairedCuts(db) : c[2] - c[1] <= e[2] - e[1]
          /\ \E e \in PairedCuts(db) : e[1] < c[1] /\ c[2] - c[1] < e[2] - e[1]
          /\ c[2] - c[1] >= 2
          /\ NPos(db, 1, c[1]) > 0
          /\ score.num = 0 - (c[2] - c[1])

\* C10: when no single and no paired cut meets both constraints, the
\* scorer returns the empty threshold list and the score -1, as an
\* ordinary return value.
C10_NoFeasibleThreshold ==
    (Returned /\ ~SomeSingleCut(db) /\ PairedCuts(db) = {}) =>
        /\ bias = [kind |-> "list", v |-> <<>>]
        /\ score = [num |-> 0 - 1, den |-> 1]

\* such a return on fully overlapping data: both labels present, every row
\* with the same probability; main then reports "Results not good"
C10_Witness ==
    /\ pc = "done"
    /\ report.kind = "Results not good"
    /\ Len(db) >= 4
    /\ \A x \in DOMAIN db : db[x].p = db[1].p
    /\ \E x, z \in DOMAIN db : db[x].y = 1 /\ db[z].y = 0
    /\ ~SomeSingleCut(db)
    /\ PairedCuts(db) = {}
    /\ IsEmptyList(bias)

\* the labels of the rows are all positive or all negative
OneClass(d) ==
    /\ Len(d) >= 1
    /\ \/ \A x \in DOMAIN d : d[x].y = 1
       \/ \A x \in DOMAIN d : d[x].y # 1

\* C15: on labels of one class only, two_bias_scorer_CV evaluates no ratio
\* whose denominator (the positive or the negative count) is zero, and it
\* returns the empty threshold list and the score -1.
C15_OneClassNoZeroDivision ==
    (Returned /\ OneClass(db)) =>
        /\ ~two_bias_scorer_CV(db).divzero
        /\ bias = [kind |-> "list", v |-> <<>>]
        /\ score = [num |-> 0 - 1, den |-> 1]

(***************************************************************************)
(* Properties of f1_bias_scorer_CV, stated on the predictions CV_probs and *)
(* the labels trainlabels of the final call.                               *)
(***************************************************************************)
ReturnedF1 == pc \in {"scored", "done"} /\ scorer = "f1_bias_scorer_CV"

Positives == {x \in DOMAIN trainlabels : trainlabels[x] = 1}
SelectedAt(t) == {x \in DOMAIN CV_probs : CV_probs[x] >= t}
\* precision and recall at threshold t, as fractions
PrecisionAt(t) == [num |-> Cardinality(SelectedAt(t) \cap Positives),
                   den |-> Cardinality(SelectedAt(t))]
RecallAt(t) == [num |-> Cardinality(SelectedAt(t) \cap Positives),
                den |-> Cardinality(Positives)]
\* 2 * precision * recall / (precision + recall), as a fraction: numerator
\* and denominator both multiplied by the two denominators
F1At(t) ==
    LET P == PrecisionAt(t)
        R == RecallAt(t)
    IN  [num |-> 2 * P.num * R.num,
         den |-> P.num * R.den + R.num * P.den]
\* the thresholds of the curve at which precision and recall are not both 0
CountedThresholds ==
    {t \in PRThresholds(CV_probs, trainlabels) :
        Positives # {} /\ SelectedAt(t) \cap Positives # {}}

\* every positive is scored hi and every negative lo, lo < hi
TwoValueSeparable ==
    /\ Positives # {}
    /\ \E lo, hi \in {CV_probs[x] : x \in DOMAIN CV_probs} :
          /\ lo < hi
          /\ \A x \in DOMAIN CV_probs :
                CV_probs[x] = (IF x \in Positives THEN hi ELSE lo)

\* C16: f1_bias_scorer_CV returns the greatest F1 over the thresholds of the
\* precision/recall curve at which precision and recall are not both zero,
\* with the first threshold in curve order that attains it; on data where
\* every positive has one score and every negative one lower score it
\* returns F1 = 1 and a threshold that selects exactly the positives.
C16_MaxF1FirstThreshold ==
    ReturnedF1 =>
        /\ CountedThresholds # {} =>
              \E t \in CountedThresholds :
                  /\ bias = [kind |-> "scalar", v |-> t]
                  /\ score.num * F1At(t).den = F1At(t).num * score.den
                  /\ \A u \in CountedThresholds : ~FracLess(F1At(t), F1At(u))
                  /\ \A u \in CountedThresholds : u < t => FracLess(F1At(u), F1At(t))
        /\ CountedThresholds = {} => (score.num = 0 /\ bias.v = 0)
        /\ TwoValueSeparable =>
              /\ score.num = score.den
              /\ SelectedAt(bias.v) = Positives

\* a return on data that is not separable, where two thresholds attain the
\* greatest F1, a third one a smaller F1, and the first of the two is returned
C16_Witness ==
    /\ pc = "scored"
    /\ scorer = "f1_bias_scorer_CV"
    /\ ~TwoValueSeparable
    /\ \E t, u, w \in CountedThresholds :
          /\ t < w /\ w < u
          /\ ~FracLess(F1At(t), F1At(u)) /\ ~FracLess(F1At(u), F1At(t))
          /\ FracLess(F1At(w), F1At(t))
          /\ \A z \in CountedThresholds : ~FracLess(F1At(t), F1At(z))
          /\ bias.v = t

====
